---- MODULE Spec2Model ----
(***************************************************************************)
(* Model of chunk/chunk.py (Raster Foundry Tiler, chunk stage).            *)
(*                                                                         *)
(* Strings are sequences of tokens.  The separators "/", ".", "-", ":" and *)
(* decimal digits are always tokens of their own, so the path and URL      *)
(* functions (basename, splitext, join, urlparse) work on them as the      *)
(* Python functions work on characters.                                    *)
(***************************************************************************)
EXTENDS Integers, Sequences, FiniteSets, Bags

VARIABLES
    pc,               \* position of the driver program
    images,           \* args['<image>']
    workspace,        \* args['--workspace']
    status_queue,     \* args['--status-queue']
    output_file,      \* args['--output']
    sent,             \* send_message requests made, each with its response status
    order,            \* create_uri_sets: index of the image being planned
    workspace_key,    \* create_uri_sets: candidate key of that image
    i,                \* create_uri_sets: suffix counter
    workspace_keys,   \* create_uri_sets: keys assigned so far
    result,           \* create_uri_sets: UriSets built so far
    uri_sets,         \* run_spark_job: the returned UriSets
    image_count,      \* run_spark_job: len(uri_sets)
    part,             \* state of the Spark task of each partition
    updates,          \* partition-local accumulator values
    accumulator,      \* image_source_accumulator on the driver
    chunk_tasks,      \* the cached chunk_tasks RDD, one list per partition
    chunks_count,     \* run_spark_job: chunks_count
    num_partitions,   \* run_spark_job: num_partitions
    task_state,       \* per ChunkTask: "todo", "empty" or "nonempty"
    writes,           \* number of write_bytes_to_target calls per path
    stored,           \* the persisted manifest, or NoManifest
    error,            \* the exception caught by the except clause
    raised,           \* the exception run_spark_job ended with
    image_source,     \* generate_chunk_tasks: its argument
    tasks             \* generate_chunk_tasks: its return value

vars == <<pc, images, workspace, status_queue, output_file, sent, order,
          workspace_key, i, workspace_keys, result, uri_sets,
          image_count, part, updates, accumulator, chunk_tasks, chunks_count,
          num_partitions, task_state, writes, stored, error, raised,
          image_source, tasks>>

(***************************************************************************)
(* Bounds of the model.                                                    *)
(***************************************************************************)
MaxPlanImages == 3    \* images per planner run
MaxImages == 2        \* images per job run
MaxZoom == 2          \* zoom levels tried for generate_chunk_tasks
MaxTile == 4          \* largest tile index tried in tile_bounds
MaxChunks == 520      \* largest chunks_count tried for the partition sizing
MaxImageCount == 60   \* largest image_count tried for the partition sizing

None == <<"None">>
NoError == [name |-> "", message |-> ""]
NoManifest == [where |-> "nowhere"]

Max(a, b) == IF a >= b THEN a ELSE b
Min(a, b) == IF a <= b THEN a ELSE b

RECURSIVE Pow2(_)
Pow2(n) == IF n = 0 THEN 1 ELSE 2 * Pow2(n - 1)

(***************************************************************************)
(* String helpers.                                                         *)
(***************************************************************************)
Digit(d) == CASE d = 0 -> "0" [] d = 1 -> "1" [] d = 2 -> "2" [] d = 3 -> "3"
              [] d = 4 -> "4" [] d = 5 -> "5" [] d = 6 -> "6" [] d = 7 -> "7"
              [] d = 8 -> "8" [] d = 9 -> "9"

RECURSIVE Digits(_)
Digits(n) == IF n < 10 THEN <<Digit(n)>>
             ELSE Digits(n \div 10) \o <<Digit(n % 10)>>

\* str(n) and "%d" % n
str(n) == IF n < 0 THEN <<"-">> \o Digits(0 - n) ELSE Digits(n)

\* positions of token c in s
Positions(s, c) == {k \in 1..Len(s) : s[k] = c}

SetMax(S) == CHOOSE x \in S : \A y \in S : y <= x
SetMin(S) == CHOOSE x \in S : \A y \in S : y >= x

Tail2(s) == SubSeq(s, 3, Len(s))

\* os.path.basename
basename(p) ==
    IF Positions(p, "/") = {} THEN p
    ELSE SubSeq(p, SetMax(Positions(p, "/")) + 1, Len(p))

\* os.path.splitext(p)[0]: cut at the last dot of the last component, unless
\* only dots precede it
splitext_root(p) ==
    LET sep == IF Positions(p, "/") = {} THEN 0 ELSE SetMax(Positions(p, "/"))
        dots == {k \in Positions(p, ".") : k > sep}
    IN IF dots = {} THEN p
       ELSE LET d == SetMax(dots)
            IN IF \E k \in (sep + 1)..(d - 1) : p[k] # "."
               THEN SubSeq(p, 1, d - 1)
               ELSE p

get_filename(uri) == splitext_root(basename(uri))

\* os.path.join(a, b)
path_join(a, b) ==
    IF Len(b) > 0 /\ b[1] = "/" THEN b
    ELSE IF a = <<>> \/ a[Len(a)] = "/" THEN a \o b
    ELSE a \o <<"/">> \o b

\* urlparse(uri): scheme, netloc and path
urlparse(uri) ==
    LET colons == Positions(uri, ":")
        k == IF colons = {} THEN 0 ELSE SetMin(colons)
        has_scheme == k > 1 /\ \A j \in 1..(k - 1) : uri[j] # "/"
        scheme == IF has_scheme THEN SubSeq(uri, 1, k - 1) ELSE <<>>
        rest == IF has_scheme THEN SubSeq(uri, k + 1, Len(uri)) ELSE uri
        has_netloc == Len(rest) >= 2 /\ rest[1] = "/" /\ rest[2] = "/"
        after == Tail2(rest)
        slashes == Positions(after, "/")
        cut == IF slashes = {} THEN Len(after) + 1 ELSE SetMin(slashes)
    IN [scheme |-> scheme,
        netloc |-> IF has_netloc THEN SubSeq(after, 1, cut - 1) ELSE <<>>,
        path |-> IF has_netloc THEN SubSeq(after, cut, Len(after)) ELSE rest]

\* vsi_curlify raises for a scheme other than "", s3 and http
vsi_supported(uri) == urlparse(uri).scheme \in {<<>>, <<"s3">>, <<"http">>}

\* the exception vsi_curlify raises: evaluating parsed.schem fails
SchemeError ==
    [name |-> "AttributeError",
     message |-> "'ParseResult' object has no attribute 'schem'"]

vsi_curlify(uri) ==
    LET parsed == urlparse(uri)
    IN IF parsed.scheme = <<>> THEN uri
       ELSE IF parsed.scheme = <<"s3">>
            THEN <<"/", "vsicurl", "/", "http", ":", "/", "/">> \o parsed.netloc
                 \o <<".", "s3", ".", "amazonaws", ".", "com">> \o parsed.path
       ELSE <<"/", "vsicurl", "/">> \o uri

(***************************************************************************)
(* Workspace planner: create_uri_sets.                                     *)
(***************************************************************************)
Range(s) == {s[k] : k \in 1..Len(s)}

\* a loop test that looks at the most recently assigned key only
KeyInLastOnly(key, keys) == Len(keys) > 0 /\ key = keys[Len(keys)]

\* workspace_key in workspace_keys
KeyIn(key, keys) == key \in Range(keys)

\* a loop body that takes the replacing branch whatever i is
NextKeyReplacing(key, n) == SubSeq(key, 1, Len(key) - 2) \o <<"-">> \o str(n)

\* the body of the while loop: the candidate key after one collision
NextKey(key, n) ==
    IF n > 2 THEN SubSeq(key, 1, Len(key) - 2) \o <<"-">> \o str(n)
    ELSE key \o <<"-">> \o str(n)

\* the statement "i + 1" evaluates a sum and leaves i as it is
NextI(n) == n

WorkspaceTarget(ws, key) ==
    path_join(ws, key \o <<"-", "workingcopy", ".", "tif">>)

ImageFolder(ws, key) == path_join(ws, key)

UriSet(uri, ws, key, ord) ==
    [source_uri |-> vsi_curlify(uri),
     workspace_target |-> WorkspaceTarget(ws, key),
     workspace_source_uri |-> vsi_curlify(WorkspaceTarget(ws, key)),
     image_folder |-> ImageFolder(ws, key),
     order |-> ord]

JobUnchanged ==
    UNCHANGED <<images, workspace, status_queue, output_file, sent, uri_sets,
                image_count, part, updates, accumulator, chunk_tasks,
                chunks_count, num_partitions, task_state, writes, stored,
                raised, image_source, tasks>>

\* for (order, uri) in enumerate(images): lines 131-136
PlanImage ==
    /\ pc = "create_uri_sets"
    /\ order < Len(images)
    /\ vsi_supported(images[order + 1])
    /\ workspace_key' = get_filename(images[order + 1])
    /\ i' = 1
    /\ pc' = "while"
    /\ UNCHANGED <<order, workspace_keys, result, error>>
    /\ JobUnchanged

\* vsi_curlify(uri) raises: line 132
PlanImageRaise ==
    /\ pc = "create_uri_sets"
    /\ order < Len(images)
    /\ ~vsi_supported(images[order + 1])
    /\ error' = SchemeError
    /\ pc' = "except"
    /\ UNCHANGED <<order, workspace_key, i, workspace_keys, result>>
    /\ JobUnchanged

\* one iteration of the while loop: lines 137-142
PlanRetry ==
    /\ pc = "while"
    /\ KeyIn(workspace_key, workspace_keys)
    /\ workspace_key' = NextKey(workspace_key, i)
    /\ i' = NextI(i)
    /\ UNCHANGED <<pc, order, workspace_keys, result, error>>
    /\ JobUnchanged

\* the loop exits and the UriSet is built: lines 143-157
PlanAssign ==
    /\ pc = "while"
    /\ ~KeyIn(workspace_key, workspace_keys)
    /\ vsi_supported(WorkspaceTarget(workspace, workspace_key))
    /\ workspace_keys' = Append(workspace_keys, workspace_key)
    /\ result' = Append(result, UriSet(images[order + 1], workspace,
                                       workspace_key, order))
    /\ order' = order + 1
    /\ pc' = "create_uri_sets"
    /\ UNCHANGED <<workspace_key, i, error>>
    /\ JobUnchanged

\* the loop exits and vsi_curlify(workspace_target) raises: lines 143-147
PlanAssignRaise ==
    /\ pc = "while"
    /\ ~KeyIn(workspace_key, workspace_keys)
    /\ ~vsi_supported(WorkspaceTarget(workspace, workspace_key))
    /\ workspace_keys' = Append(workspace_keys, workspace_key)
    /\ error' = SchemeError
    /\ pc' = "except"
    /\ UNCHANGED <<order, workspace_key, i, result>>
    /\ JobUnchanged

\* return result; image_count = len(uri_sets): lines 159, 388-389
PlanReturn ==
    /\ pc = "create_uri_sets"
    /\ order = Len(images)
    /\ uri_sets' = result
    /\ image_count' = Len(result)
    /\ part' = [p \in 1..Len(result) |-> "todo"]
    /\ updates' = [p \in 1..Len(result) |-> <<>>]
    /\ chunk_tasks' = [p \in 1..Len(result) |-> <<>>]
    /\ pc' = "count"
    /\ UNCHANGED <<images, workspace, status_queue, output_file, sent, order,
                   workspace_key, i, workspace_keys, result, accumulator,
                   chunks_count, num_partitions, task_state, writes, stored,
                   error, raised, image_source, tasks>>

NextPlan ==
    \/ PlanImage
    \/ PlanImageRaise
    \/ PlanRetry
    \/ PlanAssign
    \/ PlanAssignRaise
    \/ PlanReturn

\* images and workspaces given to the planner
PlanUris ==
    {<<"a", ".", "tif">>,
     <<"d", "/", "a", ".", "tif">>,
     <<"a", "-", "1", ".", "tif">>,
     <<"s3", ":", "/", "/", "b", "/", "a", ".", "tif">>,
     <<"ftp", ":", "/", "/", "h", "/", "a", ".", "tif">>}

Workspaces ==
    {<<"w">>,
     <<"s3", ":", "/", "/", "b", "/", "w">>,
     <<"ftp", ":", "/", "/", "h", "/", "w">>}

ListsUpTo(S, n) == UNION {[1..m -> S] : m \in 1..n}

InitLocals ==
    /\ sent = <<>>
    /\ order = 0
    /\ workspace_key = <<>>
    /\ i = 1
    /\ workspace_keys = <<>>
    /\ result = <<>>
    /\ uri_sets = <<>>
    /\ part = <<>>
    /\ updates = <<>>
    /\ accumulator = <<>>
    /\ chunk_tasks = <<>>
    /\ num_partitions = 0
    /\ task_state = <<>>
    /\ writes = EmptyBag
    /\ stored = NoManifest
    /\ error = NoError
    /\ raised = NoError
    /\ tasks = <<>>

NoImageSource ==
    [origin_uri |-> <<>>, source_uri |-> <<>>, zoom |-> 0,
     ll_bounds |-> <<0, 0, 0, 0>>, tile_bounds |-> <<0, 0, 0, 0>>,
     image_folder |-> <<>>, order |-> 0]

\* create_uri_sets called on its own
InitPlan ==
    /\ pc = "create_uri_sets"
    /\ images \in ListsUpTo(PlanUris, MaxPlanImages)
    /\ workspace \in Workspaces
    /\ status_queue = None
    /\ output_file = <<"out", ".", "json">>
    /\ image_count = 0
    /\ chunks_count = 0
    /\ image_source = NoImageSource
    /\ InitLocals

SpecPlan == InitPlan /\ [][NextPlan]_vars

\* the inputs of the runs whose termination is checked
FairPlanUris ==
    {<<"a", ".", "tif">>,
     <<"a", "-", "1", ".", "tif">>,
     <<"ftp", ":", "/", "/", "h", "/", "a", ".", "tif">>}

InitFairPlan ==
    /\ pc = "create_uri_sets"
    /\ images \in ListsUpTo(FairPlanUris, MaxPlanImages)
    /\ workspace \in {<<"w">>, <<"ftp", ":", "/", "/", "h", "/", "w">>}
    /\ status_queue = None
    /\ output_file = <<"out", ".", "json">>
    /\ image_count = 0
    /\ chunks_count = 0
    /\ image_source = NoImageSource
    /\ InitLocals

\* create_uri_sets is one sequential call: it keeps running while it can
FairSpecPlan == InitFairPlan /\ [][NextPlan]_vars /\ WF_vars(NextPlan)

(***************************************************************************)
(* Claims about the workspace planner, under SpecPlan and FairSpecPlan.    *)
(***************************************************************************)
RECURSIVE Suffixed(_, _)
\* base followed by m suffixes "-1"
Suffixed(base, m) ==
    IF m = 0 THEN base ELSE Suffixed(base, m - 1) \o <<"-", "1">>

\* the first of base, base-1, base-1-1, ... that is not among prev
FirstFree(base, prev) ==
    LET m == SetMin({n \in 0..Len(prev) : Suffixed(base, n) \notin Range(prev)})
    IN Suffixed(base, m)

SameBase(k) == get_filename(images[k]) = get_filename(images[1])

\* C2: the workspace keys assigned by create_uri_sets are pairwise distinct:
\* no two UriSets have the same image_folder or the same workspace_target;
\* and the keys are a function of the input list alone (each key is the first
\* of base, base-1, base-1-1, ... not assigned to an earlier input).
C2_UniqueKeys ==
    /\ \A j, k \in 1..Len(result) :
          j # k => /\ result[j].image_folder # result[k].image_folder
                   /\ result[j].workspace_target # result[k].workspace_target
    /\ \A j, k \in 1..Len(workspace_keys) :
          j # k => workspace_keys[j] # workspace_keys[k]
    /\ \A k \in 1..Len(workspace_keys) :
          workspace_keys[k] = FirstFree(get_filename(images[k]),
                                        SubSeq(workspace_keys, 1, k - 1))

\* three inputs with the same base filename were planned
C2_Witness ==
    /\ pc = "count"
    /\ Len(uri_sets) = 3
    /\ \A k \in 1..3 : SameBase(k)

\* C3: every assigned key is the base filename or the base filename followed
\* by exactly one "-N" suffix (the suffix is replaced, never appended twice).
C3_SingleSuffix ==
    \A k \in 1..Len(workspace_keys) :
        LET base == get_filename(images[k])
        IN \/ workspace_keys[k] = base
           \/ \E n \in 1..9 : workspace_keys[k] = base \o <<"-">> \o str(n)

AllSupported ==
    /\ \A k \in 1..Len(images) : vsi_supported(images[k])
    /\ vsi_supported(workspace)

OnePerInput ==
    /\ Len(uri_sets) = Len(images)
    /\ \A k \in 1..Len(uri_sets) : uri_sets[k].order = k - 1

\* C10: create_uri_sets terminates for every input list (it returns or
\* raises), the collision loop exits for each input, and when every URI has
\* a supported scheme it returns exactly one UriSet per input whose order is
\* the input's zero-based index.
C10_Terminates ==
    /\ <>(pc \in {"count", "except"})
    /\ AllSupported => <>(pc = "count" /\ OnePerInput)
    /\ [](pc = "count" => OnePerInput)

\* the third of three inputs with one base filename went through the
\* collision loop twice
C10_Witness ==
    /\ pc = "count"
    /\ Len(uri_sets) = 3
    /\ \A k \in 1..3 : SameBase(k)
    /\ workspace_keys[3] = Suffixed(get_filename(images[3]), 2)

(***************************************************************************)
(* Status notifier.                                                        *)
(***************************************************************************)
TILE_DIM == 1024

\* args['--job-id'] and args['--target']
job_id == "job"
target == <<"t">>

\* HTTPStatusCode values of a send_message response
Responses == {200, 500}

\* "if not queue_url: return"
queue_configured(queue_url) == queue_url \notin {None, <<>>}

\* Exception(json.dumps(res)) raised by notify for a response other than 200
ResponseError(status) == [name |-> "Exception", message |-> str(status)]

StartMessage == [jobId |-> job_id, stage |-> "chunk", status |-> "STARTED"]

SuccessMessage == [jobId |-> job_id, stage |-> "chunk", status |-> "FINISHED"]

\* an error text that leaves the message out
ErrorTextNameOnly(e) == <<e.name>>

\* "%s: %s" % (type(e).__name__, e.message)
ErrorText(e) == <<e.name, ": ", e.message>>

FailureMessage(error_message) ==
    [jobId |-> job_id, stage |-> "chunk", status |-> "FAILED",
     error |-> error_message]

\* notify(queue_url, m) answered with `status`: the driver goes on at `next`
\* (ending with `pending` when next is "raised") or ends with notify's own
\* exception
notify(m, status, next, pending) ==
    IF ~queue_configured(status_queue)
    THEN /\ sent' = sent
         /\ pc' = next
         /\ raised' = pending
    ELSE /\ sent' = Append(sent, [message |-> m, status |-> status])
         /\ IF status = 200
            THEN /\ pc' = next
                 /\ raised' = pending
            ELSE /\ pc' = "raised"
                 /\ raised' = ResponseError(status)

\* notify_start(status_queue, job_id): line 385
NotifyStart ==
    /\ pc = "notify_start"
    /\ \E status \in Responses : notify(StartMessage, status, "create_uri_sets", NoError)
    /\ UNCHANGED <<images, workspace, status_queue, output_file, order,
                   workspace_key, i, workspace_keys, result, uri_sets,
                   image_count, part, updates, accumulator, chunk_tasks,
                   chunks_count, num_partitions, task_state, writes, stored,
                   error, image_source, tasks>>

\* except Exception, e: notify_failure(...); raise: lines 445-448
Except ==
    /\ pc = "except"
    /\ \E status \in Responses :
          notify(FailureMessage(ErrorText(error)), status, "raised", error)
    /\ UNCHANGED <<images, workspace, status_queue, output_file, order,
                   workspace_key, i, workspace_keys, result, uri_sets,
                   image_count, part, updates, accumulator, chunk_tasks,
                   chunks_count, num_partitions, task_state, writes, stored,
                   error, image_source, tasks>>

\* notify_success(status_queue, job_id): line 450
NotifySuccess ==
    /\ pc = "notify_success"
    /\ \E status \in Responses : notify(SuccessMessage, status, "done", NoError)
    /\ UNCHANGED <<images, workspace, status_queue, output_file, order,
                   workspace_key, i, workspace_keys, result, uri_sets,
                   image_count, part, updates, accumulator, chunk_tasks,
                   chunks_count, num_partitions, task_state, writes, stored,
                   error, image_source, tasks>>

(***************************************************************************)
(* Image source analyzer and tile task generator.                          *)
(***************************************************************************)
\* what rasterio and mercantile report for the raster behind a source URI:
\* zoom, ll_bounds and tile_bounds = [min_col, min_row, max_col, max_row]
Raster(origin_uri) ==
    IF "vsicurl" \notin Range(origin_uri)
    THEN [zoom |-> 1, ll_bounds |-> <<0, -85, 180, 85>>,
          tile_bounds |-> <<1, 0, 2, 1>>]
    ELSE [zoom |-> 0, ll_bounds |-> <<-180, -85, 180, 85>>,
          tile_bounds |-> <<0, 0, 0, 0>>]

create_image_source(origin_uri, source_uri, image_folder, ord, geom) ==
    [origin_uri |-> origin_uri,
     source_uri |-> source_uri,
     zoom |-> geom.zoom,
     ll_bounds |-> geom.ll_bounds,
     tile_bounds |-> geom.tile_bounds,
     image_folder |-> image_folder,
     order |-> ord]

\* range(a, b) as a list
range(a, b) == [k \in 1..Max(b - a, 0) |-> a + k - 1]

\* a target that leaves the row out of the file name
TargetWithoutRow(image_folder, zoom, tile_col, tile_row) ==
    path_join(image_folder,
              str(zoom) \o <<"/">> \o str(tile_col) \o <<".", "tif">>)

\* os.path.join(image_folder, "%d/%d/%d.tif" % (zoom, tile_col, tile_row))
Target(image_folder, zoom, tile_col, tile_row) ==
    path_join(image_folder,
              str(zoom) \o <<"/">> \o str(tile_col) \o <<"/">> \o str(tile_row)
              \o <<".", "tif">>)

\* the affine transform of a tile is determined by (zoom, tile_col, tile_row)
ChunkTask(src, zoom, tile_col, tile_row) ==
    [source_uri |-> src.source_uri,
     target_meta |-> [transform |-> <<zoom, tile_col, tile_row>>,
                      width |-> TILE_DIM, height |-> TILE_DIM],
     target |-> Target(src.image_folder, zoom, tile_col, tile_row)]

generate_chunk_tasks(src) ==
    LET zoom == src.zoom
        cols == range(src.tile_bounds[1], Min(src.tile_bounds[3] + 1, Pow2(zoom)))
        rows == range(src.tile_bounds[2], Min(src.tile_bounds[4] + 1, Pow2(zoom)))
    IN [k \in 1..(Len(cols) * Len(rows)) |->
           ChunkTask(src, zoom, cols[((k - 1) \div Len(rows)) + 1],
                     rows[((k - 1) % Len(rows)) + 1])]

\* generate_chunk_tasks called on its own: lines 244-278
GenerateChunkTasks ==
    /\ pc = "generate_chunk_tasks"
    /\ tasks' = generate_chunk_tasks(image_source)
    /\ pc' = "generated"
    /\ UNCHANGED <<images, workspace, status_queue, output_file, sent, order,
                   workspace_key, i, workspace_keys, result, uri_sets,
                   image_count, part, updates, accumulator, chunk_tasks,
                   chunks_count, num_partitions, task_state, writes, stored,
                   error, raised, image_source>>

(***************************************************************************)
(* Distributed executor: the count() job and the accumulator.              *)
(***************************************************************************)
\* ImageSourceAccumulatorParam.zero
zero == <<>>

\* ImageSourceAccumulatorParam.addInPlace
addInPlace(sources1, sources2) ==
    LET res1 == IF sources1 # <<>> THEN sources1 ELSE <<>>
    IN IF sources2 # <<>> THEN res1 \o sources2 ELSE res1

\* write_bytes_to_target(path, contents)
write_bytes_to_target(path) == writes (+) SetToBag({path})

\* the exceptions the driver sees when a stage fails
CopyError == [name |-> "IOError", message |-> "copy_to_workspace"]
AnalyzeError == [name |-> "RasterioIOError", message |-> "create_image_source"]
RenderError == [name |-> "CPLE_AppDefinedError", message |-> "process_chunk_task"]
SaveError == [name |-> "IOError", message |-> "output"]

\* the Spark task of partition p, which holds uri_sets[p]: uri_set_copy,
\* create_image_sources and generate_chunk_tasks, lines 397-415
RunPartition(p) ==
    /\ pc = "count"
    /\ part[p] = "todo"
    /\ LET uri_set == uri_sets[p]
           src == create_image_source(uri_set.source_uri,
                                      uri_set.workspace_source_uri,
                                      uri_set.image_folder,
                                      uri_set.order,
                                      Raster(uri_set.source_uri))
       IN /\ writes' = write_bytes_to_target(uri_set.workspace_target)
          /\ updates' = [updates EXCEPT ![p] = addInPlace(zero, <<src>>)]
          /\ chunk_tasks' = [chunk_tasks EXCEPT ![p] = generate_chunk_tasks(src)]
    /\ part' = [part EXCEPT ![p] = "ran"]
    /\ UNCHANGED <<pc, images, workspace, status_queue, output_file, sent,
                   order, workspace_key, i, workspace_keys, result, uri_sets,
                   image_count, accumulator, chunks_count, num_partitions,
                   task_state, stored, error, raised, image_source, tasks>>

\* copy_to_workspace or create_image_source raises in the task of partition p
RunPartitionRaise(p) ==
    /\ pc = "count"
    /\ part[p] = "todo"
    /\ \E staged \in BOOLEAN :
          IF staged
          THEN /\ writes' = write_bytes_to_target(uri_sets[p].workspace_target)
               /\ error' = AnalyzeError
          ELSE /\ writes' = writes
               /\ error' = CopyError
    /\ pc' = "except"
    /\ UNCHANGED <<images, workspace, status_queue, output_file, sent, order,
                   workspace_key, i, workspace_keys, result, uri_sets,
                   image_count, part, updates, accumulator, chunk_tasks,
                   chunks_count, num_partitions, task_state, stored, raised,
                   image_source, tasks>>

\* the driver merges the accumulator update of a finished task
MergeUpdate(p) ==
    /\ pc = "count"
    /\ part[p] = "ran"
    /\ accumulator' = addInPlace(accumulator, updates[p])
    /\ part' = [part EXCEPT ![p] = "merged"]
    /\ UNCHANGED <<pc, images, workspace, status_queue, output_file, sent,
                   order, workspace_key, i, workspace_keys, result, uri_sets,
                   image_count, updates, chunk_tasks, chunks_count,
                   num_partitions, task_state, writes, stored, error, raised,
                   image_source, tasks>>

TaskIds ==
    UNION {{<<p, k>> : k \in 1..Len(chunk_tasks[p])} : p \in DOMAIN chunk_tasks}

RECURSIVE TotalLen(_, _)
TotalLen(lists, n) ==
    IF n = 0 THEN 0 ELSE Len(lists[n]) + TotalLen(lists, n - 1)

\* chunks_count = chunk_tasks.cache().count(): line 415
CountDone ==
    /\ pc = "count"
    /\ \A p \in DOMAIN part : part[p] = "merged"
    /\ chunks_count' = TotalLen(chunk_tasks, Len(chunk_tasks))
    /\ task_state' = [t \in TaskIds |-> "todo"]
    /\ pc' = "partition"
    /\ UNCHANGED <<images, workspace, status_queue, output_file, sent, order,
                   workspace_key, i, workspace_keys, result, uri_sets,
                   image_count, part, updates, accumulator, chunk_tasks,
                   num_partitions, writes, stored, error, raised,
                   image_source, tasks>>

\* a sizing that caps the partition count at 50
NumPartitionsCapped(task_count, n_images) ==
    Min(50, Max(task_count \div 10, n_images))

\* max(chunks_count / 10, min(50, image_count)) on Python 2 integers
NumPartitions(task_count, n_images) ==
    Max(task_count \div 10, Min(50, n_images))

\* num_partitions = ...: line 416
ChoosePartitions ==
    /\ pc = "partition"
    /\ num_partitions' = NumPartitions(chunks_count, image_count)
    /\ pc' = "foreach"
    /\ UNCHANGED <<images, workspace, status_queue, output_file, sent, order,
                   workspace_key, i, workspace_keys, result, uri_sets,
                   image_count, part, updates, accumulator, chunk_tasks,
                   chunks_count, task_state, writes, stored, error, raised,
                   image_source, tasks>>

(***************************************************************************)
(* Tile renderer: process_chunk_task.                                      *)
(***************************************************************************)
\* the warped band buffers reproject can produce for a tile
Warped ==
    {<<<<0, 0>>>>,
     <<<<0, 0>>, <<0, 0>>>>,
     <<<<0, 7>>>>,
     <<<<0, 0>>, <<3, 0>>>>,
     <<<<5, 0>>, <<0, 0>>>>}

\* b.any()
any_nonzero(b) == \E px \in DOMAIN b : b[px] # 0

\* a skip test that looks at the first band only
only_zero_first_band(warped) == ~any_nonzero(warped[1])

\* not any(map(lambda b: b.any(), warped))
only_zero(warped) == ~\E bidx \in DOMAIN warped : any_nonzero(warped[bidx])

TaskOf(t) == chunk_tasks[t[1]][t[2]]

\* process_chunk_task(task) runs to its end: lines 300-336
ProcessChunkTask(t) ==
    /\ pc = "foreach"
    /\ task_state[t] = "todo"
    /\ \E warped \in Warped :
          /\ task_state' =
                [task_state EXCEPT ![t] =
                    IF \A bidx \in DOMAIN warped :
                          \A px \in DOMAIN warped[bidx] : warped[bidx][px] = 0
                    THEN "empty" ELSE "nonempty"]
          /\ IF only_zero(warped)
             THEN writes' = writes
             ELSE writes' = write_bytes_to_target(TaskOf(t).target)
    /\ UNCHANGED <<pc, images, workspace, status_queue, output_file, sent,
                   order, workspace_key, i, workspace_keys, result, uri_sets,
                   image_count, part, updates, accumulator, chunk_tasks,
                   chunks_count, num_partitions, stored, error, raised,
                   image_source, tasks>>

\* rasterio.open, warp.reproject or write_bytes_to_target raises in the task
ProcessChunkTaskRaise(t) ==
    /\ pc = "foreach"
    /\ task_state[t] = "todo"
    /\ error' = RenderError
    /\ pc' = "except"
    /\ UNCHANGED <<images, workspace, status_queue, output_file, sent, order,
                   workspace_key, i, workspace_keys, result, uri_sets,
                   image_count, part, updates, accumulator, chunk_tasks,
                   chunks_count, num_partitions, task_state, writes, stored,
                   raised, image_source, tasks>>

\* foreach returns when every task has run: line 418
ForeachDone ==
    /\ pc = "foreach"
    /\ \A t \in DOMAIN task_state : task_state[t] # "todo"
    /\ pc' = "save"
    /\ UNCHANGED <<images, workspace, status_queue, output_file, sent, order,
                   workspace_key, i, workspace_keys, result, uri_sets,
                   image_count, part, updates, accumulator, chunk_tasks,
                   chunks_count, num_partitions, task_state, writes, stored,
                   error, raised, image_source, tasks>>

(***************************************************************************)
(* Manifest builder.                                                       *)
(***************************************************************************)
construct_image_info(src) ==
    [sourceUri |-> src.origin_uri,
     extent |-> [xmin |-> src.ll_bounds[1], ymin |-> src.ll_bounds[2],
                 xmax |-> src.ll_bounds[3], ymax |-> src.ll_bounds[4]],
     zoom |-> src.zoom,
     gridBounds |-> [colMin |-> src.tile_bounds[1],
                     rowMin |-> src.tile_bounds[2],
                     colMax |-> src.tile_bounds[3],
                     rowMax |-> src.tile_bounds[4]],
     tiles |-> src.image_folder]

\* the accumulated list used as it is
unsorted(sources) == sources

RECURSIVE sorted_by_order(_)
\* sorted(image_sources, key=lambda im: im.order): a stable sort
sorted_by_order(sources) ==
    IF sources = <<>> THEN <<>>
    ELSE LET x == sources[Len(sources)]
             front == sorted_by_order(SubSeq(sources, 1, Len(sources) - 1))
             k == Cardinality({j \in 1..Len(front) : front[j].order <= x.order})
         IN SubSeq(front, 1, k) \o <<x>> \o SubSeq(front, k + 1, Len(front))

\* the result dict: lines 420-432
Manifest ==
    LET ordered == sorted_by_order(accumulator)
    IN [jobId |-> job_id,
        target |-> target,
        tileSize |-> TILE_DIM,
        input |-> [k \in 1..Len(ordered) |-> construct_image_info(ordered[k])]]

RECURSIVE strip_slashes(_)
\* path.strip('/')
strip_slashes(path) ==
    IF path # <<>> /\ path[1] = "/" THEN strip_slashes(Tail(path))
    ELSE IF path # <<>> /\ path[Len(path)] = "/"
         THEN strip_slashes(SubSeq(path, 1, Len(path) - 1))
    ELSE path

\* "Save off result": lines 434-444
SaveManifest ==
    /\ pc = "save"
    /\ LET path_parsed == urlparse(output_file)
       IN IF path_parsed.scheme = <<>>
          THEN stored' = [where |-> "file", path |-> output_file,
                          body |-> Manifest]
          ELSE IF path_parsed.scheme = <<"s3">>
               THEN stored' = [where |-> "s3", bucket |-> path_parsed.netloc,
                               key |-> strip_slashes(path_parsed.path),
                               body |-> Manifest]
          ELSE stored' = stored
    /\ pc' = "notify_success"
    /\ UNCHANGED <<images, workspace, status_queue, output_file, sent, order,
                   workspace_key, i, workspace_keys, result, uri_sets,
                   image_count, part, updates, accumulator, chunk_tasks,
                   chunks_count, num_partitions, task_state, writes, error,
                   raised, image_source, tasks>>

\* open(output_file, 'w').write or put_object raises
SaveManifestRaise ==
    /\ pc = "save"
    /\ urlparse(output_file).scheme \in {<<>>, <<"s3">>}
    /\ error' = SaveError
    /\ pc' = "except"
    /\ UNCHANGED <<images, workspace, status_queue, output_file, sent, order,
                   workspace_key, i, workspace_keys, result, uri_sets,
                   image_count, part, updates, accumulator, chunk_tasks,
                   chunks_count, num_partitions, task_state, writes, stored,
                   raised, image_source, tasks>>

(***************************************************************************)
(* run_spark_job.                                                          *)
(***************************************************************************)
JobUris ==
    {<<"a", ".", "tif">>,
     <<"s3", ":", "/", "/", "b", "/", "a", ".", "tif">>,
     <<"ftp", ":", "/", "/", "h", "/", "a", ".", "tif">>}

JobWorkspaces == {<<"w">>, <<"ftp", ":", "/", "/", "h", "/", "w">>}

StatusQueues == {None, <<"q">>}

Outputs ==
    {<<"out", ".", "json">>,
     <<"s3", ":", "/", "/", "b", "/", "out", ".", "json">>,
     <<"http", ":", "/", "/", "h", "/", "out", ".", "json">>}

Init ==
    /\ pc = "notify_start"
    /\ images \in ListsUpTo(JobUris, MaxImages)
    /\ workspace \in JobWorkspaces
    /\ status_queue \in StatusQueues
    /\ output_file \in Outputs
    /\ image_count = 0
    /\ chunks_count = 0
    /\ image_source = NoImageSource
    /\ InitLocals

Next ==
    \/ NotifyStart
    \/ PlanImage
    \/ PlanImageRaise
    \/ PlanRetry
    \/ PlanAssign
    \/ PlanAssignRaise
    \/ PlanReturn
    \/ \E p \in DOMAIN part : RunPartition(p)
    \/ \E p \in DOMAIN part : RunPartitionRaise(p)
    \/ \E p \in DOMAIN part : MergeUpdate(p)
    \/ CountDone
    \/ ChoosePartitions
    \/ \E t \in DOMAIN task_state : ProcessChunkTask(t)
    \/ \E t \in DOMAIN task_state : ProcessChunkTaskRaise(t)
    \/ ForeachDone
    \/ SaveManifest
    \/ SaveManifestRaise
    \/ Except
    \/ NotifySuccess

Spec == Init /\ [][Next]_vars

(***************************************************************************)
(* generate_chunk_tasks and the partition sizing on their own.             *)
(***************************************************************************)
TileRange == (0 - 1)..MaxTile

InitTasks ==
    /\ pc = "generate_chunk_tasks"
    /\ \E zoom \in 0..MaxZoom :
       \E tile_bounds \in [1..4 -> TileRange] :
          image_source =
             [origin_uri |-> <<"a", ".", "tif">>,
              source_uri |-> <<"w", "/", "a", "-", "workingcopy", ".", "tif">>,
              zoom |-> zoom,
              ll_bounds |-> <<-180, -85, 180, 85>>,
              tile_bounds |-> tile_bounds,
              image_folder |-> <<"w", "/", "a">>,
              order |-> 0]
    /\ images = <<>>
    /\ workspace = <<"w">>
    /\ status_queue = None
    /\ output_file = <<"out", ".", "json">>
    /\ image_count = 0
    /\ chunks_count = 0
    /\ InitLocals

SpecTasks == InitTasks /\ [][GenerateChunkTasks]_vars

InitPartition ==
    /\ pc = "partition"
    /\ chunks_count \in 0..MaxChunks
    /\ image_count \in 1..MaxImageCount
    /\ images = <<>>
    /\ workspace = <<"w">>
    /\ status_queue = None
    /\ output_file = <<"out", ".", "json">>
    /\ image_source = NoImageSource
    /\ InitLocals

SpecPartition == InitPartition /\ [][ChoosePartitions]_vars

(***************************************************************************)
(* Claims about run_spark_job, under Spec.                                 *)
(***************************************************************************)
ManifestWritten == stored.where # "nowhere"

Sent(status) == {k \in 1..Len(sent) : sent[k].message.status = status}

\* C1: the manifest's input list has one entry per submitted image, in
\* submission order whatever the order in which the accumulator updates were
\* merged: entry i is the ImageInfo of the i-th image, its tiles folder is
\* the i-th UriSet's and its sourceUri is vsi_curlify of the i-th input URI.
C1_ManifestOrder ==
    ManifestWritten =>
        /\ Len(stored.body.input) = Len(images)
        /\ \A k \in 1..Len(images) :
              /\ stored.body.input[k].sourceUri = vsi_curlify(images[k])
              /\ stored.body.input[k].tiles = uri_sets[k].image_folder
              /\ \E j \in 1..Len(accumulator) :
                    /\ accumulator[j].order = k - 1
                    /\ stored.body.input[k] = construct_image_info(accumulator[j])

\* a manifest was written after the updates were merged out of order
C1_Witness ==
    /\ ManifestWritten
    /\ Len(accumulator) >= 2
    /\ accumulator[1].order > accumulator[2].order

\* C1 as stated: the sourceUri of entry i is the i-th input URI itself
C1_SourceUriIsInput ==
    ManifestWritten =>
        /\ Len(stored.body.input) = Len(images)
        /\ \A k \in 1..Len(images) : stored.body.input[k].sourceUri = images[k]

\* C4: FINISHED is sent, and notify_success is reached, only after the
\* manifest has been written to the output location.
C4_FinishedAfterManifest ==
    (pc \in {"notify_success", "done"} \/ Sent("FINISHED") # {})
        => ManifestWritten

\* an exception was caught by the except clause and the job has ended
FailedRun == pc = "raised" /\ error # NoError

\* C5: when a step inside the try block raises and a status queue is
\* configured, exactly one FAILED request is made, as the last request,
\* carrying "<type name>: <message>" of the error, and no FINISHED request;
\* the job then ends with that error if the request was answered 200 and with
\* notify's own exception otherwise.  With no status queue nothing is sent
\* and the job ends with the error.  FINISHED and FAILED are never both sent.
C5_FailureNotified ==
    /\ FailedRun =>
          /\ Sent("FINISHED") = {}
          /\ IF queue_configured(status_queue)
             THEN /\ Sent("FAILED") = {Len(sent)}
                  /\ sent[Len(sent)].message.error
                        = <<error.name, ": ", error.message>>
                  /\ raised = IF sent[Len(sent)].status = 200 THEN error
                              ELSE ResponseError(sent[Len(sent)].status)
             ELSE /\ sent = <<>>
                  /\ raised = error
    /\ ~(Sent("FINISHED") # {} /\ Sent("FAILED") # {})
    /\ pc \in {"notify_success", "done"} => error = NoError

\* a failed tile rendering was reported to a configured queue
C5_Witness ==
    /\ FailedRun
    /\ error = RenderError
    /\ Sent("FAILED") # {}
    /\ raised = error

\* C5 as stated: every failed run sends exactly one FAILED message and ends
\* with the error re-raised
C5_AlwaysOneFailed ==
    FailedRun =>
        /\ Cardinality(Sent("FAILED")) = 1
        /\ Sent("FINISHED") = {}
        /\ raised = error

FolderOf(t) == uri_sets[t[1]].image_folder

\* C7: no two ChunkTasks of the job have the same target path, and two tasks
\* agree on (image_folder, zoom, tile_col, tile_row) only if they are the
\* same task; the workspace keys behind the folders are pairwise distinct.
C7_UniqueTargets ==
    /\ \A t, u \in TaskIds :
          t # u =>
             /\ TaskOf(t).target # TaskOf(u).target
             /\ <<FolderOf(t), TaskOf(t).target_meta.transform>>
                   # <<FolderOf(u), TaskOf(u).target_meta.transform>>
    /\ \A j, k \in 1..Len(uri_sets) :
          j # k => uri_sets[j].image_folder # uri_sets[k].image_folder

\* two images produced tasks for the same tile, and one image two tiles
C7_Witness ==
    /\ pc = "foreach"
    /\ \E t, u \in TaskIds :
          /\ t[1] # u[1]
          /\ TaskOf(t).target_meta.transform = TaskOf(u).target_meta.transform
    /\ \E t, u \in TaskIds : t[1] = u[1] /\ t[2] # u[2]

TileWrites(t) == CopiesIn(TaskOf(t).target, writes)

\* a step in which process_chunk_task found task t empty / non-empty
FoundEmpty(t) == task_state[t] = "todo" /\ task_state'[t] = "empty"
FoundNonEmpty(t) == task_state[t] = "todo" /\ task_state'[t] = "nonempty"

\* C8: a task whose warped bands are all zero writes nothing and raises
\* nothing (the driver stays in foreach with no error); a task with a
\* non-zero band that runs to its end writes exactly one file, at
\* task.target; a tile file exists only where a task was non-empty.
C8_EmptyTilesSkipped ==
    /\ [](\A t \in DOMAIN task_state :
             TileWrites(t) = IF task_state[t] = "nonempty" THEN 1 ELSE 0)
    /\ [](\A path \in BagToSet(writes) :
             \/ \E k \in 1..Len(uri_sets) : uri_sets[k].workspace_target = path
             \/ \E t \in DOMAIN task_state :
                   TaskOf(t).target = path /\ task_state[t] = "nonempty")
    /\ [][\A t \in DOMAIN task_state :
             /\ FoundEmpty(t) =>
                   writes' = writes /\ pc' = "foreach" /\ error' = NoError
             /\ FoundNonEmpty(t) =>
                   writes' = writes (+) SetToBag({TaskOf(t).target})]_vars

\* a finished job with an empty tile and a written tile
C8_Witness ==
    /\ pc = "done"
    /\ \E t, u \in DOMAIN task_state :
          task_state[t] = "empty" /\ task_state[u] = "nonempty"

(***************************************************************************)
(* Claims about generate_chunk_tasks, under SpecTasks.                     *)
(***************************************************************************)
TilesOf(ts) ==
    {<<ts[k].target_meta.transform[2], ts[k].target_meta.transform[3]>> :
        k \in 1..Len(ts)}

\* C6: every emitted task has tile_col and tile_row in [0, 2^zoom - 1], and
\* the emitted (col, row) pairs are exactly those with col in
\* [min_col, min(max_col, 2^zoom - 1)] and row in
\* [min_row, min(max_row, 2^zoom - 1)], one task per pair.
C6_TilesInRange ==
    pc = "generated" =>
        LET last == Pow2(image_source.zoom) - 1
            tb == image_source.tile_bounds
            pairs == (tb[1]..Min(tb[3], last)) \X (tb[2]..Min(tb[4], last))
        IN /\ \A cr \in TilesOf(tasks) : cr[1] \in 0..last /\ cr[2] \in 0..last
           /\ TilesOf(tasks) = pairs
           /\ Len(tasks) = Cardinality(pairs)

(***************************************************************************)
(* Claims about the partition sizing, under SpecPartition.                 *)
(***************************************************************************)
\* C9: the partition count is max(task_count div 10, min(50, image_count))
\* with integer division: 500 tasks and 5 images give 50, 20 tasks and 5
\* images give 5.  min(50, image_count) is a lower bound; there is no upper
\* bound: 520 tasks give 52 partitions.
C9_PartitionCount ==
    pc = "foreach" =>
        LET q == CHOOSE n \in 0..chunks_count :
                    10 * n <= chunks_count /\ chunks_count < 10 * (n + 1)
            floor == IF image_count < 50 THEN image_count ELSE 50
        IN /\ num_partitions >= q
           /\ num_partitions >= floor
           /\ num_partitions \in {q, floor}
           /\ (chunks_count = 500 /\ image_count = 5) => num_partitions = 50
           /\ (chunks_count = 20 /\ image_count = 5) => num_partitions = 5
           /\ (chunks_count = 520 /\ image_count = 5) => num_partitions = 52

\* the sizing of 500 tasks over 5 images
C9_Witness ==
    /\ pc = "foreach"
    /\ chunks_count = 500
    /\ image_count = 5
    /\ num_partitions = 50

\* C9 as stated: image_count is the lower bound and 50 the upper bound
C9_BoundedBy50 ==
    pc = "foreach" =>
        /\ num_partitions = Max(chunks_count \div 10, Min(50, image_count))
        /\ image_count <= num_partitions
        /\ num_partitions <= 50

====
